---- MODULE Spec2Model ----
(***************************************************************************)
(* The cached klines endpoint of the crypto review tool                    *)
(* (GET /api/klines-cached: src/unnamed/part_000, lines 98-381): the       *)
(* request handler GET, the direct fetch fetchFromBinance and the range    *)
(* assembler fetchCompleteData, run by several requests at once against    *)
(* one kline table, one coinSettings table and one upstream exchange; and  *)
(* the indicator wrappers of src/lib/indicators.ts, called by the chart.   *)
(* Further specifications over the same state: the settings route with    *)
(* the two forms that post to it (SpecStore), POST /api/watchlist          *)
(* (SpecWatchlist), the chart page (SpecPage) and the client-side loader   *)
(* of the older chart page (SpecLoader).                                   *)
(*                                                                         *)
(* A request advances one `await` at a time; the synchronous code between  *)
(* two awaits is one atomic step.  The 100 ms pause between two batches    *)
(* touches nothing but the clock and is folded into the batch step.        *)
(***************************************************************************)
EXTENDS Integers, Sequences, FiniteSets, TLC

----------------------------------------------------------------------------
(* Bounds of the model *)

\* number of requests that may be in flight together
NumRequests == 2
\* longest answer the unconstrained exchange gives to one call
MaxBatchLen == 2

----------------------------------------------------------------------------
(* Program constants *)

\* const maxPerRequest = 1000
maxPerRequest == 1000
\* fetchFromBinance(symbol, timeframe, undefined, 500)
fallbackLimit == 500
\* candle[0] / 1000 and candle.time * 1000
MsPerSecond == 1000
\* (1000 * 60): milliseconds in a minute
MsPerMinute == 1000 * 60
\* setDate(getDate() +- n) moves a Date by whole days (server clock in UTC)
MsPerDay == 24 * 60 * MsPerMinute
\* startTime.setDate(startTime.getDate() - 1)
daysBefore == 1
\* endTime.setDate(endTime.getDate() + 4)
daysAfter == 4

\* const timeframeToMinutes = { '1m': 1, '5m': 5, '15m': 15, '1h': 60, ... }
KnownTimeframes == {"1m", "5m", "15m", "1h", "4h", "1d"}

timeframeToMinutes(timeframe) ==
  CASE timeframe = "1m" -> 1
    [] timeframe = "5m" -> 5
    [] timeframe = "15m" -> 15
    [] timeframe = "1h" -> 60
    [] timeframe = "4h" -> 240
    [] timeframe = "1d" -> 1440

MinutesPerCandleDefaultOne(timeframe) ==
  IF timeframe \in KnownTimeframes THEN timeframeToMinutes(timeframe) ELSE 1

\* const minutesPerCandle = timeframeToMinutes[timeframe] || 60
minutesPerCandle(timeframe) ==
  IF timeframe \in KnownTimeframes THEN timeframeToMinutes(timeframe) ELSE 60

----------------------------------------------------------------------------
(* Numbers.  A candle time is the quotient of a millisecond timestamp by   *)
(* 1000, which need not be whole: it is kept as whole seconds plus         *)
(* thousandths.                                                            *)

\* candle[0] / 1000
DivThousand(ms) == [sec |-> ms \div MsPerSecond, frac |-> ms % MsPerSecond]

\* candle.time * 1000
TimesThousand(time) == time.sec * MsPerSecond + time.frac

\* Math.ceil(a / b), b > 0
Ceil(a, b) == -((-a) \div b)

\* const requiredLimit = Math.ceil(totalMinutes / minutesPerCandle)
\* with totalMinutes = (endTimestamp - startTimestamp) / (1000 * 60)
RequiredLimitPlusOne(timeframe, startTimestamp, endTimestamp) ==
  Ceil(endTimestamp - startTimestamp, MsPerMinute * minutesPerCandle(timeframe)) + 1

requiredLimit(timeframe, startTimestamp, endTimestamp) ==
  Ceil(endTimestamp - startTimestamp, MsPerMinute * minutesPerCandle(timeframe))

NumBatchesPlusOne(timeframe, startTimestamp, endTimestamp) ==
  Ceil(requiredLimit(timeframe, startTimestamp, endTimestamp), maxPerRequest) + 1

\* const numBatches = Math.ceil(requiredLimit / maxPerRequest)
numBatches(timeframe, startTimestamp, endTimestamp) ==
  Ceil(requiredLimit(timeframe, startTimestamp, endTimestamp), maxPerRequest)

----------------------------------------------------------------------------
(* Candles.  An upstream record is [timestamp, close]: open, high, low and *)
(* volume are copied field by field exactly as close is.                   *)

\* ohlcv.map((candle) => ({ time: candle[0] / 1000, ..., close: candle[4] }))
FormatCandle(candle) == [time |-> DivThousand(candle.timestamp), close |-> candle.close]

FormatData(ohlcv) == [k \in 1..Len(ohlcv) |-> FormatCandle(ohlcv[k])]

\* Map.set(item.time, item): a known key keeps its place and takes the new
\* value, a new key goes last
MapSet(map, item) ==
  IF \E k \in 1..Len(map) : map[k].time = item.time
  THEN [k \in 1..Len(map) |-> IF map[k].time = item.time THEN item ELSE map[k]]
  ELSE Append(map, item)

RECURSIVE MapOf(_, _)
MapOf(map, items) ==
  IF items = <<>> THEN map ELSE MapOf(MapSet(map, Head(items)), Tail(items))

KeepDuplicates(allData) == allData

\* Array.from(new Map(allData.map(item => [item.time, item])).values())
UniqueData(allData) == MapOf(<<>>, allData)

KeepAll(data, startTimestamp, endTimestamp) == data

\* uniqueData.filter(c => c.time * 1000 >= startTimestamp && c.time * 1000 <= endTimestamp)
FilterData(data, startTimestamp, endTimestamp) ==
  SelectSeq(data, LAMBDA candle :
    /\ TimesThousand(candle.time) >= startTimestamp
    /\ TimesThousand(candle.time) <= endTimestamp)

\* the comparator (a, b) => a.time - b.time is negative
Before(a, b) == TimesThousand(a.time) < TimesThousand(b.time)

\* stable insertion of one item into a sorted list
RECURSIVE InsertSorted(_, _)
InsertSorted(sorted, item) ==
  IF sorted = <<>> THEN <<item>>
  ELSE IF Before(item, Head(sorted)) THEN <<item>> \o sorted
  ELSE <<Head(sorted)>> \o InsertSorted(Tail(sorted), item)

RECURSIVE SortFrom(_, _)
SortFrom(sorted, items) ==
  IF items = <<>> THEN sorted ELSE SortFrom(InsertSorted(sorted, Head(items)), Tail(items))

\* filteredData.sort((a, b) => a.time - b.time)
SortByTime(data) == SortFrom(<<>>, data)

\* lines 359-380 of fetchCompleteData: deduplicate, filter to the range, sort
Finalize(allData, startTimestamp, endTimestamp) ==
  SortByTime(FilterData(UniqueData(allData), startTimestamp, endTimestamp))

----------------------------------------------------------------------------
(* Symbols are token lists, so that symbol.replace('/', '') is a real      *)
(* rewriting: 'BTC/USDT' is <<"BTC", "/", "USDT">>.                        *)

RECURSIVE ReplaceSlash(_)
\* symbol.replace('/', ''): the first slash goes, later ones stay
ReplaceSlash(symbol) ==
  IF symbol = <<>> THEN <<>>
  ELSE IF Head(symbol) = "/" THEN Tail(symbol)
  ELSE <<Head(symbol)>> \o ReplaceSlash(Tail(symbol))

BtcUsdt == <<"BTC", "/", "USDT">>
EthUsdt == <<"ETH", "/", "USDT">>
NoSymbol == <<>>

----------------------------------------------------------------------------
(* The two Prisma tables the handler uses.                                 *)
(* coinSettings: rows [id, userId, symbol, publishTime], one per           *)
(* (userId, symbol).  kline: rows [coinSettingsId, symbol, timeframe,      *)
(* time, close], one per (coinSettingsId, timeframe, time), which is what  *)
(* skipDuplicates of createMany refers to.                                 *)

NoSettings == [id |-> 0, userId |-> "", symbol |-> <<>>, publishTime |-> 0]

\* prisma.coinSettings.findUnique({ where: { userId_symbol: { userId, symbol } } })
FindUnique(table, userId, symbol) ==
  IF \E row \in table : row.userId = userId /\ row.symbol = symbol
  THEN CHOOSE row \in table : row.userId = userId /\ row.symbol = symbol
  ELSE NoSettings

\* where: { coinSettingsId, timeframe }
KeyRows(table, coinSettingsId, timeframe) ==
  {row \in table : row.coinSettingsId = coinSettingsId /\ row.timeframe = timeframe}

RECURSIVE SeqOfSet(_)
SeqOfSet(rows) ==
  IF rows = {} THEN <<>>
  ELSE LET row == CHOOSE x \in rows : TRUE IN <<row>> \o SeqOfSet(rows \ {row})

Reverse(seq) == [k \in 1..Len(seq) |-> seq[Len(seq) + 1 - k]]

FindManyDescending(table, coinSettingsId, timeframe) ==
  Reverse(SortByTime(SeqOfSet(KeyRows(table, coinSettingsId, timeframe))))

\* prisma.kline.findMany({ where: {...}, orderBy: { time: 'asc' } })
FindMany(table, coinSettingsId, timeframe) ==
  SortByTime(SeqOfSet(KeyRows(table, coinSettingsId, timeframe)))

\* cachedData.map(k => ({ time: k.time, ..., close: k.close }))
FormatRows(rows) == [k \in 1..Len(rows) |-> [time |-> rows[k].time, close |-> rows[k].close]]

DeleteManyAnyTimeframe(table, coinSettingsId, timeframe) ==
  {row \in table : row.coinSettingsId # coinSettingsId}

\* prisma.kline.deleteMany({ where: { coinSettingsId, timeframe } })
DeleteMany(table, coinSettingsId, timeframe) ==
  table \ KeyRows(table, coinSettingsId, timeframe)

\* allData.map(candle => ({ coinSettingsId, symbol: normalizedSymbol, timeframe, ... }))
RowsOf(allData, coinSettingsId, symbol, timeframe) ==
  {[coinSettingsId |-> coinSettingsId, symbol |-> symbol, timeframe |-> timeframe,
    time |-> allData[k].time, close |-> allData[k].close] : k \in 1..Len(allData)}

\* prisma.kline.createMany({ data, skipDuplicates: true })
CreateMany(table, rows) ==
  table \cup {row \in rows :
    ~\E old \in table : /\ old.coinSettingsId = row.coinSettingsId
                        /\ old.timeframe = row.timeframe
                        /\ old.time = row.time}

----------------------------------------------------------------------------
(* Responses *)

NoResponse ==
  [status |-> 0, error |-> "", hasData |-> FALSE, data |-> <<>>, cached |-> "absent"]

\* NextResponse.json({ error }, { status })
ErrorResponse(status, message) ==
  [status |-> status, error |-> message, hasData |-> FALSE, data |-> <<>>,
   cached |-> "absent"]

\* NextResponse.json({ symbol, timeframe, data, cached? })
DataResponse(data, cached) ==
  [status |-> 200, error |-> "", hasData |-> TRUE, data |-> data, cached |-> cached]

----------------------------------------------------------------------------
(* The upstream exchange.  In mode "faithful" it holds a fixed set of      *)
(* candle timestamps and answers fetchOHLCV(symbol, timeframe, since,      *)
(* limit) with the first `limit` candles at or after `since` (the latest   *)
(* `limit` candles when `since` is undefined).  In mode "arbitrary" it     *)
(* answers any call with any list of its pool: overlapping, repeated,      *)
(* unsorted or out-of-range candles.  In mode "full" it holds a candle on  *)
(* every interval and answers with a full batch, kept by its two ends.  In *)
(* every mode a call may throw.                                            *)

Requests == 1..NumRequests

RawCandle(timestamp, close) == [timestamp |-> timestamp, close |-> close]

RECURSIVE AscendingSeq(_)
AscendingSeq(numbers) ==
  IF numbers = {} THEN <<>>
  ELSE LET least == CHOOSE x \in numbers : \A y \in numbers : x <= y
       IN <<least>> \o AscendingSeq(numbers \ {least})

FirstN(seq, n) == IF Len(seq) <= n THEN seq ELSE SubSeq(seq, 1, n)
LastN(seq, n) == IF Len(seq) <= n THEN seq ELSE SubSeq(seq, Len(seq) - n + 1, Len(seq))

FaithfulAnswer(held, hasSince, since, limit) ==
  LET times == IF hasSince THEN AscendingSeq({t \in held : t >= since})
               ELSE AscendingSeq(held)
      taken == IF hasSince THEN FirstN(times, limit) ELSE LastN(times, limit)
  IN [k \in 1..Len(taken) |-> RawCandle(taken[k], 1)]

\* the candle interval of the exchange, in milliseconds
ExchangeInterval(timeframe) ==
  MsPerMinute * (CASE timeframe = "1m" -> 1
                   [] timeframe = "5m" -> 5
                   [] timeframe = "15m" -> 15
                   [] timeframe = "1h" -> 60
                   [] timeframe = "2h" -> 120
                   [] timeframe = "4h" -> 240
                   [] timeframe = "1d" -> 1440)

\* the clock of the fully populated exchange
LatestTime == 7 * MsPerDay

\* a fully populated exchange holds a candle on every interval up to its
\* clock; its answer to (since, limit) is the limit candles from the first
\* interval at or after since. Only the first and the last candle of that
\* batch are kept here: the loop reads the length of an answer and its last
\* candle, lines 325 and 341-347
FullBatchEnds(timeframe, hasSince, since, limit) ==
  LET step == ExchangeInterval(timeframe)
      first == IF hasSince THEN Ceil(since, step) * step
               ELSE (LatestTime \div step) * step - (limit - 1) * step
      last == first + (limit - 1) * step
  IN IF limit = 1 THEN <<RawCandle(first, 1)>>
     ELSE <<RawCandle(first, 1), RawCandle(last, 1)>>

SeqsUpTo(items, n) == UNION {[1..k -> items] : k \in 0..n}

\* timestamps the faithful exchange may hold: one candle a day
SourceTimes == {k * MsPerDay : k \in 0..7}

\* candles of the arbitrary exchange: on the start of the earlier window
\* (before the later one), inside both windows on a fraction of a second (two
\* versions of this one), on the end of the earlier window, after both
CandlePool ==
  {RawCandle(MsPerDay, 1), RawCandle(MsPerDay + 90500, 1),
   RawCandle(MsPerDay + 90500, 2), RawCandle(6 * MsPerDay, 1), RawCandle(7 * MsPerDay, 1)}

\* answers of the exchange while several requests run together
SharedPool ==
  {<<>>, <<RawCandle(2 * MsPerDay, 1)>>, <<RawCandle(4 * MsPerDay, 1)>>}

\* ccxt error classes the handlers name
UpstreamErrors == {"BadSymbol", "NetworkError"}

\* publish times of the settings row: on a whole day, and 30 s later
PublishTimes == {2 * MsPerDay, 2 * MsPerDay + 30000}

\* the settings row of user u1 for BTCUSDT; ETHUSDT has none
SettingsRow(publishTime) ==
  [id |-> 1, userId |-> "u1", symbol |-> ReplaceSlash(BtcUsdt), publishTime |-> publishTime]

\* rows cached by an earlier refresh: two 1h candles, one 1d candle and one
\* 5m candle
PriorRows ==
  RowsOf(<<[time |-> DivThousand(2 * MsPerDay), close |-> 7],
           [time |-> DivThousand(3 * MsPerDay), close |-> 7]>>,
         1, ReplaceSlash(BtcUsdt), "1h")
  \cup RowsOf(<<[time |-> DivThousand(2 * MsPerDay), close |-> 7]>>,
              1, ReplaceSlash(BtcUsdt), "1d")
  \cup RowsOf(<<[time |-> DivThousand(2 * MsPerDay), close |-> 7]>>,
              1, ReplaceSlash(BtcUsdt), "5m")

\* query parameters and session of one request
Params(userIds, symbols, timeframes) ==
  [userId : userIds, symbol : symbols, timeframe : timeframes, forceRefresh : BOOLEAN]

\* one request at a time against an arbitrary or a faithful exchange, with
\* an empty or a filled cache; NumRequests requests together on the
\* single-batch key (u1, BTC/USDT, 1h), cached before; one request at a time
\* on the eight-batch key (u1, BTC/USDT, 1m) against an arbitrary exchange;
\* one request at a time against a fully populated exchange
Scenarios ==
  {[exchange |-> [mode |-> "arbitrary", held |-> {}, pool |-> SeqsUpTo(CandlePool, MaxBatchLen)],
    traffic |-> [clients |-> {1},
                 params |-> Params({"u1", ""}, {BtcUsdt, EthUsdt, NoSymbol},
                                   {"5m", "1h", "1d", "2h"})],
    kline |-> rows] : rows \in {{}, PriorRows}}
  \cup
  {[exchange |-> [mode |-> "faithful", held |-> held, pool |-> {}],
    traffic |-> [clients |-> {1},
                 params |-> Params({"u1"}, {BtcUsdt, EthUsdt}, {"5m", "1h", "1d", "2h"})],
    kline |-> rows] : held \in SUBSET SourceTimes, rows \in {{}, PriorRows}}
  \cup
  {[exchange |-> [mode |-> "arbitrary", held |-> {}, pool |-> SharedPool],
    traffic |-> [clients |-> Requests,
                 params |-> Params({"u1"}, {BtcUsdt}, {"1h"})],
    kline |-> PriorRows]}
  \cup
  {[exchange |-> [mode |-> "arbitrary", held |-> {}, pool |-> SharedPool],
    traffic |-> [clients |-> {1},
                 params |-> Params({"u1"}, {BtcUsdt}, {"1m"})],
    kline |-> {}]}
  \cup
  {[exchange |-> [mode |-> "full", held |-> {}, pool |-> {}],
    traffic |-> [clients |-> {1},
                 params |-> Params({"u1"}, {BtcUsdt, EthUsdt}, {"1m", "5m", "1h"})],
    kline |-> {}]}

----------------------------------------------------------------------------
(* Indicators (src/lib/indicators.ts).  The wrappers hand the closes to the *)
(* technicalindicators library and stamp result number index with the time *)
(* of candle index + offset.  A library result is kept as upto, the number  *)
(* of closes consumed when it was produced; its numeric value is not.       *)

MaxCandles == 8
MaxPeriod == 4

\* data.map(d => d.close)
Closes(data) == [k \in 1..Len(data) |-> data[k].close]

Max0(x) == IF x > 0 THEN x ELSE 0

\* SMA.calculate({ period, values }): the first result after period values
SMACalculate(period, values) ==
  [k \in 1..Max0(Len(values) - period + 1) |-> [upto |-> k + period - 1]]

\* EMA.calculate({ period, values }): seeded with the SMA of period values
EMACalculate(period, values) ==
  [k \in 1..Max0(Len(values) - period + 1) |-> [upto |-> k + period - 1]]

\* RSI.calculate({ period, values }): period differences, period + 1 values
RSICalculate(period, values) ==
  [k \in 1..Max0(Len(values) - period) |-> [upto |-> k + period]]

\* BollingerBands.calculate({ period, values, stdDev })
BollingerBandsCalculate(period, values, stdDev) ==
  [k \in 1..Max0(Len(values) - period + 1) |-> [upto |-> k + period - 1]]

\* MACD.calculate({ values, fastPeriod, slowPeriod, signalPeriod, ... }): one
\* result per value from the slowPeriod-th on; signal and histogram are
\* undefined on the first signalPeriod - 1 results
MACDCalculate(values, fastPeriod, slowPeriod, signalPeriod) ==
  [k \in 1..Max0(Len(values) - slowPeriod + 1) |->
     [upto |-> k + slowPeriod - 1, hasSignal |-> k >= signalPeriod]]

\* what a wrapper returns, or that it threw
Returned(out) == [threw |-> FALSE, out |-> out]
Thrown == [threw |-> TRUE, out |-> <<>>]

\* results.map((value, index) => ({ time: data[index + offset].time, ... })):
\* data[index + offset] is undefined past the end of data, and reading its
\* time throws a TypeError
StampTimes(data, results, offset) ==
  IF \E k \in 1..Len(results) : k + offset > Len(data)
  THEN Thrown
  ELSE Returned([k \in 1..Len(results) |->
                   [time |-> data[k + offset].time, value |-> results[k]]])

CalculateSMAReadsFirst(data, period) ==
  IF period > Len(data) THEN Thrown
  ELSE StampTimes(data, SMACalculate(period, Closes(data)), period - 1)

calculateSMA(data, period) ==
  StampTimes(data, SMACalculate(period, Closes(data)), period - 1)

calculateEMA(data, period) ==
  StampTimes(data, EMACalculate(period, Closes(data)), period - 1)

CalculateRSIOneEarly(data, period) ==
  StampTimes(data, RSICalculate(period, Closes(data)), period - 1)

calculateRSI(data, period) ==
  StampTimes(data, RSICalculate(period, Closes(data)), period)

\* const offset = slowPeriod + signalPeriod - 2
calculateMACD(data, fastPeriod, slowPeriod, signalPeriod) ==
  StampTimes(data, MACDCalculate(Closes(data), fastPeriod, slowPeriod, signalPeriod),
             slowPeriod + signalPeriod - 2)

calculateBollingerBands(data, period, stdDev) ==
  StampTimes(data, BollingerBandsCalculate(period, Closes(data), stdDev), period - 1)

\* an ascending candle series of n candles, one every stride seconds
Series(n, stride) ==
  [k \in 1..n |-> [time |-> [sec |-> k * stride, frac |-> 0], close |-> k]]

SeriesLengths == 0..MaxCandles \cup {100}
Strides == {3600, 86400}

\* periods of the single-period indicators: small ones, and the defaults of
\* the chart (14 for RSI, 20 for the others)
Periods == 1..MaxPeriod \cup {14, 20}

\* (fast, slow, signal) of MACD: small ones, and the default (12, 26, 9)
MacdPeriods == {<<1, 2, 2>>, <<2, 3, 3>>, <<2, 4, 1>>, <<12, 26, 9>>}

IndicatorNames == {"SMA", "EMA", "RSI", "MACD", "BollingerBands"}

NoIndicator ==
  [pc |-> "off", fn |-> "", data |-> <<>>, period |-> 0, fastPeriod |-> 0,
   slowPeriod |-> 0, signalPeriod |-> 0, result |-> Returned(<<>>)]

----------------------------------------------------------------------------
(* State *)

VARIABLES
  coinSettings,   \* the coinSettings table
  kline,          \* the kline table
  exchange,       \* the upstream exchange: [mode, held, pool]
  traffic,        \* who sends requests, and which: [clients, params]
  req,            \* per request: position, parameters and locals of GET
  lastDone,       \* history: the request that answered last (0: none yet)
  ind,            \* one indicator computation of the chart: [pc, fn, data, ...]
  watchlist,      \* the watchlistItem table
  post,           \* per POST /api/watchlist request: position and locals
  page,           \* the chart page: selection, state hooks, loads in flight
  loader          \* the client-side loader of the older chart page

vars == <<coinSettings, kline, exchange, traffic, req, lastDone, ind,
          watchlist, post, page, loader>>

\* the parts of the state a specification leaves out
NoPosts == <<>>
NoPage == [pc |-> "closed"]
NoLoader == [pc |-> "closed"]

\* locals of GET and of fetchCompleteData, plus the history of the request:
\* calls (upstream calls issued), reads (kline reads issued), writes (kline
\* writes issued), deleted (rows
\* its deleteMany removed), alone (no other request ran while it ran), prev
\* (the request that had answered last when it arrived)
Idle ==
  [pc |-> "idle", userId |-> "", symbol |-> <<>>, timeframe |-> "",
   forceRefresh |-> FALSE, coinSettings |-> NoSettings, cachedData |-> <<>>,
   startTimestamp |-> 0, endTimestamp |-> 0, i |-> 0, currentSince |-> 0,
   fetched |-> <<>>, allData |-> <<>>, response |-> NoResponse,
   calls |-> <<>>, reads |-> 0, writes |-> 0, deleted |-> 0, alone |-> TRUE, prev |-> 0]

InFlight(r) == req[r].pc \notin {"idle", "done"}

Init ==
  /\ \E scenario \in Scenarios :
       /\ exchange = scenario.exchange
       /\ traffic = scenario.traffic
       /\ kline = scenario.kline
  /\ \E publishTime \in PublishTimes : coinSettings = {SettingsRow(publishTime)}
  /\ req = [r \in Requests |-> Idle]
  /\ lastDone = 0
  /\ ind = NoIndicator
  /\ watchlist = {}
  /\ post = NoPosts
  /\ page = NoPage
  /\ loader = NoLoader

----------------------------------------------------------------------------
(* Steps of fetchCompleteData and GET between two awaits *)

\* what the exchange may answer to fetchOHLCV(symbol, timeframe, since, limit)
Answers(timeframe, hasSince, since, limit) ==
  IF exchange.mode = "faithful"
  THEN {FaithfulAnswer(exchange.held, hasSince, since, limit)}
  ELSE IF exchange.mode = "full"
  THEN {FullBatchEnds(timeframe, hasSince, since, limit)}
  ELSE exchange.pool

\* history entry of one upstream call; rows = -1 when the call threw
Call(hasSince, since, limit, rows) ==
  [hasSince |-> hasSince, since |-> since, limit |-> limit, rows |-> rows]

\* the upstream call a request at a fetchOHLCV await has issued: line 246
\* (undefined, 500), line 297 (startTimestamp, requiredLimit), line 321
\* (currentSince, maxPerRequest)
CallOf(rq, rows) ==
  IF rq.pc = "fallback" THEN Call(FALSE, 0, fallbackLimit, rows)
  ELSE IF rq.pc = "fetchSingle"
  THEN Call(TRUE, rq.startTimestamp,
            requiredLimit(rq.timeframe, rq.startTimestamp, rq.endTimestamp), rows)
  ELSE Call(TRUE, rq.currentSince, maxPerRequest, rows)

NeverReachedEnd(currentSince, endTimestamp) == FALSE

\* if (currentSince >= endTimestamp) break, at the top of a round (line 314)
\* and at its bottom (line 347)
ReachedEnd(currentSince, endTimestamp) == currentSince >= endTimestamp

\* for (let i = 0; i < numBatches; i++) { if (currentSince >= endTimestamp) break; ...
LoopContinues(i, currentSince, timeframe, startTimestamp, endTimestamp) ==
  /\ i < numBatches(timeframe, startTimestamp, endTimestamp)
  /\ ~ReachedEnd(currentSince, endTimestamp)

NextSinceFromLastCandle(batchData, timeframe) ==
  TimesThousand(batchData[Len(batchData)].time)

\* currentSince = (lastCandle.time * 1000) + (minutesPerCandle * 60 * 1000)
NextSince(batchData, timeframe) ==
  TimesThousand(batchData[Len(batchData)].time)
    + minutesPerCandle(timeframe) * 60 * 1000

AfterAssemblyEmptyIsError(rq, fetched) ==
  LET filteredData == Finalize(fetched, rq.startTimestamp, rq.endTimestamp)
  IN IF Len(filteredData) > 0
     THEN [rq EXCEPT !.pc = "deleteMany", !.fetched = fetched, !.allData = filteredData]
     ELSE [rq EXCEPT !.pc = "done", !.fetched = fetched, !.allData = filteredData,
                     !.response = ErrorResponse(500, "No data")]

\* fetchCompleteData from line 359 to its return, then GET up to its next
\* await: if (allData.length > 0) { await deleteMany ... } else the response
AfterAssembly(rq, fetched) ==
  LET filteredData == Finalize(fetched, rq.startTimestamp, rq.endTimestamp)
  IN IF Len(filteredData) > 0
     THEN [rq EXCEPT !.pc = "deleteMany", !.fetched = fetched, !.allData = filteredData]
     ELSE [rq EXCEPT !.pc = "done", !.fetched = fetched, !.allData = filteredData,
                     !.response = DataResponse(filteredData, "false")]

\* GET lines 179-193 and fetchCompleteData up to its first fetchOHLCV
StartAssembly(rq) ==
  LET publishTime == rq.coinSettings.publishTime
      startTimestamp == publishTime - daysBefore * MsPerDay
      endTimestamp == publishTime + daysAfter * MsPerDay
      windowed == [rq EXCEPT !.startTimestamp = startTimestamp,
                             !.endTimestamp = endTimestamp,
                             !.i = 0, !.currentSince = startTimestamp]
  IN IF requiredLimit(rq.timeframe, startTimestamp, endTimestamp) <= maxPerRequest
     THEN [windowed EXCEPT !.pc = "fetchSingle"]
     ELSE IF LoopContinues(0, startTimestamp, rq.timeframe, startTimestamp, endTimestamp)
     THEN [windowed EXCEPT !.pc = "fetchBatch"]
     ELSE AfterAssembly(windowed, <<>>)

\* the request's new locals, and the history of who answered last
Commit(r, rq) ==
  /\ req' = [req EXCEPT ![r] = rq]
  /\ lastDone' = IF rq.pc = "done" THEN r ELSE lastDone

----------------------------------------------------------------------------
(* Actions: one per await of the handler *)

\* GET lines 113-130: session, query parameters, the two early returns
Enter(r) ==
  /\ r \in traffic.clients
  /\ req[r].pc = "idle"
  /\ \E p \in traffic.params :
       LET arrived == [Idle EXCEPT !.userId = p.userId, !.symbol = p.symbol,
                                   !.timeframe = p.timeframe,
                                   !.forceRefresh = p.forceRefresh,
                                   !.alone = \A o \in Requests : ~InFlight(o),
                                   !.prev = lastDone]
           rq == IF p.userId = ""
                 THEN [arrived EXCEPT !.pc = "done",
                                      !.response = ErrorResponse(401, "Unauthorized")]
                 ELSE IF p.symbol = NoSymbol
                 THEN [arrived EXCEPT !.pc = "done",
                                      !.response = ErrorResponse(400, "Symbol parameter required")]
                 ELSE [arrived EXCEPT !.pc = "findUnique"]
       IN /\ req' = [o \in Requests |->
                       IF o = r THEN rq
                       ELSE IF InFlight(o) THEN [req[o] EXCEPT !.alone = FALSE]
                       ELSE req[o]]
          /\ lastDone' = IF rq.pc = "done" THEN r ELSE lastDone
  /\ UNCHANGED <<coinSettings, kline, exchange, traffic, ind, watchlist, post, page, loader>>

\* GET lines 132-146 and, with forceRefresh, on to the assembly
FindSettings(r) ==
  /\ req[r].pc = "findUnique"
  /\ LET found == FindUnique(coinSettings, req[r].userId, ReplaceSlash(req[r].symbol))
         rq == [req[r] EXCEPT !.coinSettings = found]
     IN Commit(r, IF found = NoSettings THEN [rq EXCEPT !.pc = "fallback"]
                  ELSE IF ~rq.forceRefresh THEN [rq EXCEPT !.pc = "findMany"]
                  ELSE StartAssembly(rq))
  /\ UNCHANGED <<coinSettings, kline, exchange, traffic, ind, watchlist, post, page, loader>>

\* GET lines 148-177: the cache read, answered from the cache when it has rows
ReadCache(r) ==
  /\ req[r].pc = "findMany"
  /\ LET cachedData == FindMany(kline, req[r].coinSettings.id, req[r].timeframe)
         rq == [req[r] EXCEPT !.cachedData = cachedData, !.reads = @ + 1]
     IN Commit(r, IF Len(cachedData) > 0
                  THEN [rq EXCEPT !.pc = "done",
                                  !.response = DataResponse(FormatRows(cachedData), "true")]
                  ELSE StartAssembly(rq))
  /\ UNCHANGED <<coinSettings, kline, exchange, traffic, ind, watchlist, post, page, loader>>

FetchFallbackCaches(r) ==
  /\ req[r].pc = "fallback"
  /\ \E ohlcv \in Answers(req[r].timeframe, FALSE, 0, fallbackLimit) :
       /\ kline' = CreateMany(kline, RowsOf(FormatData(ohlcv), 0,
                                            ReplaceSlash(req[r].symbol), req[r].timeframe))
       /\ Commit(r, [req[r] EXCEPT
                       !.pc = "done",
                       !.calls = Append(@, CallOf(req[r], Len(ohlcv))),
                       !.writes = @ + 1,
                       !.response = DataResponse(FormatData(ohlcv), "absent")])
  /\ UNCHANGED <<coinSettings, exchange, traffic, ind, watchlist, post, page, loader>>

\* fetchFromBinance(symbol, timeframe, undefined, 500), lines 239-258
FetchFallback(r) ==
  /\ req[r].pc = "fallback"
  /\ \E ohlcv \in Answers(req[r].timeframe, FALSE, 0, fallbackLimit) :
       Commit(r, [req[r] EXCEPT
                    !.pc = "done",
                    !.calls = Append(@, CallOf(req[r], Len(ohlcv))),
                    !.response = DataResponse(FormatData(ohlcv), "absent")])
  /\ UNCHANGED <<coinSettings, kline, exchange, traffic, ind, watchlist, post, page, loader>>

\* fetchCompleteData lines 295-306: the single call of the single-batch path
FetchSingle(r) ==
  /\ req[r].pc = "fetchSingle"
  /\ LET limit == requiredLimit(req[r].timeframe, req[r].startTimestamp,
                                req[r].endTimestamp)
     IN \E ohlcv \in Answers(req[r].timeframe, TRUE, req[r].startTimestamp, limit) :
          Commit(r, AfterAssembly(
                      [req[r] EXCEPT !.calls = Append(@, CallOf(req[r], Len(ohlcv)))],
                      FormatData(ohlcv)))
  /\ UNCHANGED <<coinSettings, kline, exchange, traffic, ind, watchlist, post, page, loader>>

\* fetchCompleteData lines 313-354: one round of the batch loop
FetchBatch(r) ==
  /\ req[r].pc = "fetchBatch"
  /\ \E ohlcv \in Answers(req[r].timeframe, TRUE, req[r].currentSince,
                         maxPerRequest) :
       LET called == [req[r] EXCEPT !.calls = Append(@, CallOf(req[r], Len(ohlcv)))]
           batchData == FormatData(ohlcv)
           allData == called.fetched \o batchData
           currentSince == NextSince(batchData, called.timeframe)
       IN Commit(r,
            IF Len(ohlcv) = 0 THEN AfterAssembly(called, called.fetched)
            ELSE IF ReachedEnd(currentSince, called.endTimestamp)
            THEN AfterAssembly([called EXCEPT !.currentSince = currentSince], allData)
            ELSE IF LoopContinues(called.i + 1, currentSince, called.timeframe,
                                  called.startTimestamp, called.endTimestamp)
            THEN [called EXCEPT !.i = @ + 1, !.currentSince = currentSince,
                                !.fetched = allData]
            ELSE AfterAssembly([called EXCEPT !.i = @ + 1, !.currentSince = currentSince],
                               allData))
  /\ UNCHANGED <<coinSettings, kline, exchange, traffic, ind, watchlist, post, page, loader>>

ThrowsKeepsPartial(r, error) ==
  /\ req[r].pc \in {"fallback", "fetchSingle", "fetchBatch"}
  /\ Commit(r, [req[r] EXCEPT
                  !.pc = "done",
                  !.calls = Append(@, CallOf(req[r], -1)),
                  !.response = DataResponse(req[r].fetched, "false")])
  /\ UNCHANGED <<coinSettings, kline, exchange, traffic, ind, watchlist, post, page, loader>>

\* a fetchOHLCV call throws: nothing catches it before GET lines 230-236
UpstreamThrows(r, error) ==
  /\ req[r].pc \in {"fallback", "fetchSingle", "fetchBatch"}
  /\ Commit(r, [req[r] EXCEPT
                  !.pc = "done",
                  !.calls = Append(@, CallOf(req[r], -1)),
                  !.response = ErrorResponse(500, error)])
  /\ UNCHANGED <<coinSettings, kline, exchange, traffic, ind, watchlist, post, page, loader>>

\* GET lines 197-203
DeleteCache(r) ==
  /\ req[r].pc = "deleteMany"
  /\ kline' = DeleteMany(kline, req[r].coinSettings.id, req[r].timeframe)
  /\ Commit(r, [req[r] EXCEPT
                  !.pc = "createMany", !.writes = @ + 1,
                  !.deleted = Cardinality(KeyRows(kline, req[r].coinSettings.id,
                                                  req[r].timeframe))])
  /\ UNCHANGED <<coinSettings, exchange, traffic, ind, watchlist, post, page, loader>>

\* GET lines 205-229: the insert, then the response
InsertCache(r) ==
  /\ req[r].pc = "createMany"
  /\ kline' = CreateMany(kline, RowsOf(req[r].allData, req[r].coinSettings.id,
                                       ReplaceSlash(req[r].symbol), req[r].timeframe))
  /\ Commit(r, [req[r] EXCEPT !.pc = "done", !.writes = @ + 1,
                              !.response = DataResponse(req[r].allData, "false")])
  /\ UNCHANGED <<coinSettings, exchange, traffic, ind, watchlist, post, page, loader>>

\* a Prisma call rejects: caught at GET lines 230-236
DbFail(r) ==
  /\ req[r].pc \in {"findUnique", "findMany", "deleteMany", "createMany"}
  /\ Commit(r, [req[r] EXCEPT !.pc = "done",
                              !.response = ErrorResponse(500, "PrismaError")])
  /\ UNCHANGED <<coinSettings, kline, exchange, traffic, ind, watchlist, post, page, loader>>

Next ==
  \E r \in Requests :
    \/ Enter(r)
    \/ FindSettings(r)
    \/ ReadCache(r)
    \/ FetchFallback(r)
    \/ FetchSingle(r)
    \/ FetchBatch(r)
    \/ \E error \in UpstreamErrors : UpstreamThrows(r, error)
    \/ DeleteCache(r)
    \/ InsertCache(r)
    \/ DbFail(r)

Spec == Init /\ [][Next]_vars

----------------------------------------------------------------------------
(* The indicator computations of the chart, one call of a wrapper each *)

InitIndicators ==
  /\ coinSettings = {}
  /\ kline = {}
  /\ exchange = [mode |-> "arbitrary", held |-> {}, pool |-> {}]
  /\ traffic = [clients |-> {}, params |-> {}]
  /\ req = [r \in Requests |-> Idle]
  /\ lastDone = 0
  /\ watchlist = {}
  /\ post = NoPosts
  /\ page = NoPage
  /\ loader = NoLoader
  /\ \E fn \in IndicatorNames, n \in SeriesLengths, stride \in Strides :
       \/ /\ fn # "MACD"
          /\ \E period \in Periods :
               ind = [NoIndicator EXCEPT !.pc = "ready", !.fn = fn,
                                         !.data = Series(n, stride), !.period = period]
       \/ /\ fn = "MACD"
          /\ \E periods \in MacdPeriods :
               ind = [NoIndicator EXCEPT !.pc = "ready", !.fn = fn,
                                         !.data = Series(n, stride),
                                         !.fastPeriod = periods[1],
                                         !.slowPeriod = periods[2],
                                         !.signalPeriod = periods[3]]

Finish(result) ==
  /\ ind' = [ind EXCEPT !.pc = "done", !.result = result]
  /\ UNCHANGED <<coinSettings, kline, exchange, traffic, req, lastDone,
                 watchlist, post, page, loader>>

CalculateSMA ==
  /\ ind.pc = "ready" /\ ind.fn = "SMA"
  /\ Finish(calculateSMA(ind.data, ind.period))

CalculateEMA ==
  /\ ind.pc = "ready" /\ ind.fn = "EMA"
  /\ Finish(calculateEMA(ind.data, ind.period))

CalculateRSI ==
  /\ ind.pc = "ready" /\ ind.fn = "RSI"
  /\ Finish(calculateRSI(ind.data, ind.period))

CalculateMACD ==
  /\ ind.pc = "ready" /\ ind.fn = "MACD"
  /\ Finish(calculateMACD(ind.data, ind.fastPeriod, ind.slowPeriod, ind.signalPeriod))

CalculateBollingerBands ==
  /\ ind.pc = "ready" /\ ind.fn = "BollingerBands"
  /\ Finish(calculateBollingerBands(ind.data, ind.period, 2))

NextIndicators ==
  \/ CalculateSMA
  \/ CalculateEMA
  \/ CalculateRSI
  \/ CalculateMACD
  \/ CalculateBollingerBands

SpecIndicators == InitIndicators /\ [][NextIndicators]_vars

----------------------------------------------------------------------------
(* Properties *)

\* fetchCompleteData has returned to GET: its result is in allData
Assembled(r) ==
  \/ req[r].pc \in {"deleteMany", "createMany"}
  \/ req[r].pc = "done" /\ req[r].response.cached = "false"

StrictlyAscending(data) ==
  \A k \in 1..(Len(data) - 1) :
    TimesThousand(data[k].time) < TimesThousand(data[k + 1].time)

DistinctTimes(data) ==
  \A j, k \in 1..Len(data) : j # k => data[j].time # data[k].time

InRange(candle, startTimestamp, endTimestamp) ==
  /\ startTimestamp <= TimesThousand(candle.time)
  /\ TimesThousand(candle.time) <= endTimestamp

\* C1: whatever the batches held (overlapping, repeated or unsorted
\* candles), the series fetchCompleteData returns is strictly ascending by
\* time and no two of its candles have the same time.
C1_AscendingDistinct ==
  \A r \in Requests :
    /\ StrictlyAscending(req[r].allData)
    /\ DistinctTimes(req[r].allData)
    /\ req[r].response.cached = "false" => req[r].response.data = req[r].allData

\* C1 witness: two batches that repeat a time and are out of order, and a
\* returned series of at least two candles
C1_Witness ==
  \E r \in Requests :
    /\ Assembled(r)
    /\ Len(req[r].calls) = 2
    /\ \E j, k \in 1..Len(req[r].fetched) :
         j < k /\ req[r].fetched[j].time = req[r].fetched[k].time
    /\ \E j, k \in 1..Len(req[r].fetched) :
         j < k /\ Before(req[r].fetched[k], req[r].fetched[j])
    /\ Len(req[r].allData) >= 2

\* C2: every candle of the returned series has startMs <= time * 1000 <=
\* endMs; candles outside the range are dropped, and a request whose calls
\* all succeeded fails only if the database does.
C2_WithinRange ==
  \A r \in Requests :
    /\ \A k \in 1..Len(req[r].allData) :
         InRange(req[r].allData[k], req[r].startTimestamp, req[r].endTimestamp)
    /\ ( /\ req[r].pc = "done"
         /\ req[r].calls # <<>>
         /\ \A k \in 1..Len(req[r].calls) : req[r].calls[k].rows >= 0
         /\ req[r].response.status # 200 )
       => req[r].response.error = "PrismaError"

\* C2 witness: a request that fetched candles before and after its window
\* and answered with the candles in between
C2_Witness ==
  \E r \in Requests :
    /\ req[r].pc = "done"
    /\ req[r].response.status = 200
    /\ req[r].response.cached = "false"
    /\ Len(req[r].response.data) >= 1
    /\ \E k \in 1..Len(req[r].fetched) :
         TimesThousand(req[r].fetched[k].time) < req[r].startTimestamp
    /\ \E k \in 1..Len(req[r].fetched) :
         TimesThousand(req[r].fetched[k].time) > req[r].endTimestamp


SameKey(a, b) ==
  /\ req[a].userId = req[b].userId
  /\ req[a].symbol = req[b].symbol
  /\ req[a].timeframe = req[b].timeframe

\* r answered with a freshly assembled series (cache miss or forced refresh)
Refreshed(r) ==
  /\ req[r].pc = "done"
  /\ req[r].response.status = 200
  /\ req[r].response.cached = "false"

\* C3 as claimed: a miss or forced refresh that ran alone and returned S is
\* followed at once by a non-forced request for the same key, which also
\* runs alone and succeeds: it returns exactly S.
C3_PutThenGet ==
  \A a, b \in Requests :
    ( /\ a # b
      /\ Refreshed(a)
      /\ req[a].alone
      /\ req[b].pc = "done"
      /\ req[b].prev = a
      /\ req[b].alone
      /\ ~req[b].forceRefresh
      /\ SameKey(a, b)
      /\ req[b].response.status = 200 )
    => req[b].response.data = req[a].response.data

\* C4: a non-forced request that finds cached rows answers with exactly
\* those rows in ascending time order, marked cached, after zero upstream
\* calls and zero kline writes.
C4_CacheHit ==
  \A r \in Requests :
    ( /\ req[r].pc = "done"
      /\ ~req[r].forceRefresh
      /\ Len(req[r].cachedData) > 0 )
    => /\ req[r].response.status = 200
       /\ req[r].response.cached = "true"
       /\ Len(req[r].response.data) = Len(req[r].cachedData)
       /\ StrictlyAscending(req[r].response.data)
       /\ req[r].calls = <<>>
       /\ req[r].writes = 0
       /\ ( lastDone = r /\ \A o \in Requests : ~InFlight(o) )
          => {req[r].response.data[k] : k \in 1..Len(req[r].response.data)}
               = {[time |-> row.time, close |-> row.close] :
                    row \in KeyRows(kline, req[r].coinSettings.id, req[r].timeframe)}

\* C4 witness: a cache hit that served two rows
C4_Witness ==
  \E r \in Requests :
    /\ req[r].pc = "done"
    /\ ~req[r].forceRefresh
    /\ req[r].response.cached = "true"
    /\ Len(req[r].response.data) = 2
    /\ req[r].calls = <<>>

\* C5 as claimed: a non-forced read never finds the key empty while a
\* refresh of that key stands between its delete, which removed rows, and
\* its insert.
C5_NoTornRead ==
  [][\A r \in Requests :
       ( /\ req[r].pc = "findMany"
         /\ req'[r].pc # "findMany"
         /\ req'[r].response.error # "PrismaError"
         /\ \E o \in Requests \ {r} :
              /\ req[o].pc = "createMany"
              /\ req[o].deleted > 0
              /\ req[o].coinSettings.id = req[r].coinSettings.id
              /\ req[o].timeframe = req[r].timeframe )
       => req'[r].cachedData # <<>>]_vars

\* C6 as claimed: once two overlapping forced refreshes of one key have both
\* stored a non-empty series and nothing else has run, the key holds the
\* series of one of them.
C6_RefreshesSerialised ==
  \A a, b \in Requests :
    ( /\ a # b
      /\ Refreshed(a) /\ Refreshed(b)
      /\ req[a].forceRefresh /\ req[b].forceRefresh
      /\ ~req[a].alone /\ ~req[b].alone
      /\ SameKey(a, b)
      /\ req[a].response.data # <<>> /\ req[b].response.data # <<>>
      /\ \A o \in Requests \ {a, b} : req[o].pc = "idle" )
    => FormatRows(FindMany(kline, req[a].coinSettings.id, req[a].timeframe))
         \in {req[a].response.data, req[b].response.data}

\* C7: an upstream call that throws is the request's last call, and the
\* request ends with an error response without candle data, whatever earlier
\* batches returned and whatever the cache holds.
C7_FailureAborts ==
  \A r \in Requests :
    \A k \in 1..Len(req[r].calls) :
      req[r].calls[k].rows = -1
      => /\ k = Len(req[r].calls)
         /\ req[r].pc = "done"
         /\ req[r].response.status = 500
         /\ req[r].response.error \in UpstreamErrors
         /\ ~req[r].response.hasData
         /\ req[r].response.data = <<>>
         /\ req[r].writes = 0

\* C7 witness: a forced refresh of a cached key whose first batch returned
\* candles and whose second call threw
C7_Witness ==
  \E r \in Requests :
    /\ req[r].forceRefresh
    /\ Len(req[r].calls) = 2
    /\ req[r].calls[1].rows > 0
    /\ req[r].calls[2].rows = -1
    /\ req[r].fetched # <<>>
    /\ KeyRows(kline, req[r].coinSettings.id, req[r].timeframe) # {}
    /\ req[r].response.status = 500

\* C8: when every upstream call of a request returned zero rows, the request
\* is answered with status 200 and the empty series.
C8_EmptyIsSuccess ==
  \A r \in Requests :
    ( /\ req[r].calls # <<>>
      /\ \A k \in 1..Len(req[r].calls) : req[r].calls[k].rows = 0 )
    => /\ req[r].pc = "done"
       /\ req[r].allData = <<>>
       /\ req[r].response.status = 200
       /\ req[r].response.error = ""
       /\ req[r].response.hasData
       /\ req[r].response.data = <<>>

\* C8 witness: a multi-batch assembly whose first batch was empty
C8_Witness ==
  \E r \in Requests :
    /\ req[r].coinSettings # NoSettings
    /\ req[r].timeframe = "5m"
    /\ req[r].calls = <<Call(TRUE, req[r].startTimestamp, maxPerRequest, 0)>>
    /\ req[r].response = DataResponse(<<>>, "false")

\* C9 as claimed: against a faithful exchange the returned series holds
\* every candle of the exchange with startMs <= time * 1000 <= endMs.
C9_Complete ==
  \A r \in Requests :
    ( exchange.mode = "faithful" /\ Refreshed(r) )
    => \A t \in exchange.held :
         ( req[r].startTimestamp <= t /\ t <= req[r].endTimestamp )
         => \E k \in 1..Len(req[r].response.data) :
              TimesThousand(req[r].response.data[k].time) = t

\* the fetch phase of fetchCompleteData is over
FetchOver(r) ==
  /\ req[r].coinSettings # NoSettings
  /\ req[r].endTimestamp # 0
  /\ req[r].pc \in {"deleteMany", "createMany", "done"}

\* C10: when ceil((endMs - startMs) / 60000 / minutesPerCandle) is at most
\* 1000, the assembly consists of exactly one upstream call, with since =
\* startMs and that limit; for 1h over five days the limit is 120.
C10_SingleCall ==
  \A r \in Requests :
    LET span == req[r].endTimestamp - req[r].startTimestamp
        count == Ceil(span, 60000 * minutesPerCandle(req[r].timeframe))
    IN ( FetchOver(r) /\ count <= 1000 )
       => /\ Len(req[r].calls) = 1
          /\ req[r].calls[1].hasSince
          /\ req[r].calls[1].since = req[r].startTimestamp
          /\ req[r].calls[1].limit = count
          /\ ( req[r].timeframe = "1h" /\ span = 5 * 24 * 3600 * 1000 )
             => req[r].calls[1].limit = 120

\* C10 witness: a finished 1h assembly over five days
C10_Witness ==
  \E r \in Requests :
    /\ FetchOver(r)
    /\ req[r].timeframe = "1h"
    /\ req[r].endTimestamp - req[r].startTimestamp = 5 * 24 * 3600 * 1000
    /\ Len(req[r].calls) = 1
    /\ req[r].calls[1].limit = 120
    /\ req[r].calls[1].rows > 0

\* a request of a signed-in user for a symbol that has no settings row
Unanchored(r) ==
  /\ req[r].pc # "idle"
  /\ req[r].userId # ""
  /\ req[r].symbol # NoSymbol
  /\ FindUnique(coinSettings, req[r].userId, ReplaceSlash(req[r].symbol)) = NoSettings

\* C11: a request without a settings row issues exactly one upstream call,
\* with no since and limit 500, reads the cache never, writes it never, and
\* answers with the candles of that call, with the refresh flag set or not
C11_FallbackBypassesCache ==
  \A r \in Requests :
    Unanchored(r) =>
      /\ req[r].reads = 0
      /\ req[r].writes = 0
      /\ Len(req[r].calls) <= 1
      /\ \A k \in 1..Len(req[r].calls) :
           /\ ~req[r].calls[k].hasSince
           /\ req[r].calls[k].limit = 500
      /\ (req[r].pc = "done" /\ req[r].response.error # "PrismaError")
           => Len(req[r].calls) = 1
      /\ (req[r].pc = "done" /\ req[r].response.status = 200)
           => /\ req[r].response.hasData
              /\ Len(req[r].response.data) = req[r].calls[1].rows
              /\ \E ohlcv \in Answers(req[r].timeframe, FALSE, 0, 500) :
                   req[r].response.data = FormatData(ohlcv)

C11_Witness ==
  \E r \in Requests :
    /\ Unanchored(r)
    /\ req[r].forceRefresh
    /\ kline # {}
    /\ req[r].pc = "done"
    /\ req[r].response.status = 200
    /\ Len(req[r].response.data) = 2
    /\ req[r].calls = <<Call(FALSE, 0, 500, 2)>>

\* C16: every candle made from an upstream record carries the whole second
\* floor(timestamp / 1000) as its time, on the fallback, the single-batch and
\* the multi-batch path
C16_WholeSeconds ==
  \A r \in Requests :
    /\ \A k \in 1..Len(req[r].fetched) : req[r].fetched[k].time.frac = 0
    /\ \A k \in 1..Len(req[r].response.data) : req[r].response.data[k].time.frac = 0

ThrewBadSymbol(r) ==
  /\ req[r].pc = "done"
  /\ Len(req[r].calls) > 0
  /\ req[r].calls[Len(req[r].calls)].rows = -1
  /\ req[r].response.error = "BadSymbol"

\* C17: a request whose upstream call threw BadSymbol is answered with the
\* client error 404, and the failed call is the last one
C17_BadSymbolIs404 ==
  \A r \in Requests : ThrewBadSymbol(r) => req[r].response.status = 404

\* a request whose assembly takes the multi-batch path
RequiredCount(r) ==
  Ceil(req[r].endTimestamp - req[r].startTimestamp,
       60000 * minutesPerCandle(req[r].timeframe))

MultiBatch(r) ==
  /\ req[r].coinSettings # NoSettings
  /\ req[r].endTimestamp # 0
  /\ RequiredCount(r) > 1000

RECURSIVE RowsUpTo(_, _)
RowsUpTo(calls, k) == IF k = 0 THEN 0 ELSE calls[k].rows + RowsUpTo(calls, k - 1)

\* the timestamp of the last candle of the batch that call k returned
LastOfBatch(r, k) == TimesThousand(req[r].fetched[RowsUpTo(req[r].calls, k)].time)

SinceChain(r) ==
  \A k \in 1..Len(req[r].calls) :
    /\ req[r].calls[k].hasSince
    /\ req[r].calls[k].limit = 1000
    /\ k = 1 => req[r].calls[k].since = req[r].startTimestamp
    /\ k > 1 => req[r].calls[k].since
                  = LastOfBatch(r, k - 1) + minutesPerCandle(req[r].timeframe) * 60000

\* C18 as claimed: on the multi-batch path the first call uses since =
\* startMs, every later call the last candle of the previous batch plus one
\* interval, each with limit 1000, and no two calls of one assembly use the
\* same since
C18_SinceNeverReused ==
  \A r \in Requests :
    MultiBatch(r) =>
      /\ SinceChain(r)
      /\ \A j, k \in 1..Len(req[r].calls) :
           j < k => req[r].calls[j].since # req[r].calls[k].since

\* C18: on the multi-batch path the first call uses since = startMs, every
\* later call the last candle of the previous batch plus one interval, each
\* with limit 1000; two calls of one assembly use different since values
\* when every batch between them ended on a candle at or after the since it
\* was asked with
C18_SinceChain ==
  \A r \in Requests :
    MultiBatch(r) =>
      /\ SinceChain(r)
      /\ \A j, k \in 1..Len(req[r].calls) :
           (/\ j < k
            /\ \A m \in j..(k - 1) : LastOfBatch(r, m) >= req[r].calls[m].since)
           => req[r].calls[j].since # req[r].calls[k].since

C18_Witness ==
  \E r \in Requests :
    /\ MultiBatch(r)
    /\ Len(req[r].calls) = 3
    /\ \A m \in 1..2 : LastOfBatch(r, m) >= req[r].calls[m].since
    /\ req[r].calls[1].since < req[r].calls[2].since
    /\ req[r].calls[2].since < req[r].calls[3].since

\* the assembly of a request is over and its last upstream call did not throw
AssemblyReturned(r) ==
  /\ req[r].pc # "fetchBatch"
  /\ Len(req[r].calls) > 0 => req[r].calls[Len(req[r].calls)].rows # -1

\* C19: one multi-batch assembly issues at most ceil(requiredCount / 1000)
\* upstream calls, whatever the exchange answers; against a fully populated
\* exchange, timeframe 1m over the five-day window (7200 candles) issues
\* exactly 8 calls
C19_BoundedCalls ==
  \A r \in Requests :
    MultiBatch(r) =>
      /\ Len(req[r].calls) <= Ceil(RequiredCount(r), 1000)
      /\ (/\ exchange.mode = "full"
          /\ req[r].timeframe = "1m"
          /\ req[r].endTimestamp - req[r].startTimestamp = 5 * MsPerDay
          /\ AssemblyReturned(r))
         => /\ RequiredCount(r) = 7200
            /\ Len(req[r].calls) = 8

C19_Witness ==
  \E r \in Requests :
    /\ MultiBatch(r)
    /\ exchange.mode = "full"
    /\ req[r].timeframe = "1m"
    /\ req[r].pc = "done"
    /\ req[r].response.status = 200
    /\ Len(req[r].calls) = 8
    /\ \A k \in 1..8 : req[r].calls[k].rows > 0

\* C20: on the multi-batch path no upstream call follows a batch of zero
\* rows, and no upstream call is issued, or about to be issued, with since
\* at or after endMs
C20_StopRule ==
  \A r \in Requests :
    MultiBatch(r) =>
      /\ \A k \in 1..Len(req[r].calls) :
           /\ req[r].calls[k].rows = 0 => k = Len(req[r].calls)
           /\ req[r].calls[k].since < req[r].endTimestamp
      /\ req[r].pc = "fetchBatch" =>
           /\ req[r].currentSince < req[r].endTimestamp
           /\ Len(req[r].calls) > 0 => req[r].calls[Len(req[r].calls)].rows # 0

C20_Witness ==
  \E r \in Requests :
    /\ MultiBatch(r)
    /\ req[r].pc = "done"
    /\ Len(req[r].calls) = 2
    /\ req[r].calls[2].rows = 0
    /\ Ceil(RequiredCount(r), 1000) > 2

----------------------------------------------------------------------------
(* Properties of the indicators *)

\* the warmup offset of a single-period indicator
WarmupOffset(fn, period) == IF fn = "RSI" THEN period ELSE period - 1

Computed(fns) == ind.pc = "done" /\ ind.fn \in fns

\* C12: SMA, EMA and Bollinger Bands with offset p - 1, and RSI with offset
\* p, over n > offset candles return n - offset entries, entry i stamped with
\* the time of candle i + offset
C12_Aligned ==
  (Computed({"SMA", "EMA", "RSI", "BollingerBands"})
   /\ Len(ind.data) > WarmupOffset(ind.fn, ind.period))
  => LET offset == WarmupOffset(ind.fn, ind.period)
     IN /\ ~ind.result.threw
        /\ Len(ind.result.out) = Len(ind.data) - offset
        /\ \A i \in 1..Len(ind.result.out) :
             ind.result.out[i].time = ind.data[i + offset].time

C12_Witness ==
  /\ Computed({"RSI"})
  /\ ind.period = 14
  /\ Len(ind.data) = 100
  /\ Len(ind.result.out) = 86
  /\ ind.result.out[1].time = ind.data[15].time

\* C13: MACD over n >= slow + signal - 1 candles returns n - (slow + signal
\* - 2) entries, entry i stamped with the time of candle i + slow + signal -
\* 2; MACD(12, 26, 9) over 100 candles returns 67 entries
C13_MacdAligned ==
  (Computed({"MACD"}) /\ Len(ind.data) >= ind.slowPeriod + ind.signalPeriod - 1)
  => LET offset == ind.slowPeriod + ind.signalPeriod - 2
     IN /\ ~ind.result.threw
        /\ Len(ind.result.out) = Len(ind.data) - offset
        /\ \A i \in 1..Len(ind.result.out) :
             ind.result.out[i].time = ind.data[i + offset].time
        /\ (ind.slowPeriod = 26 /\ ind.signalPeriod = 9 /\ Len(ind.data) = 100)
             => Len(ind.result.out) = 67

\* C14: SMA, EMA, RSI and Bollinger Bands over fewer candles than the period
\* return the empty series and do not throw
C14_ShortIsEmpty ==
  (Computed({"SMA", "EMA", "RSI", "BollingerBands"}) /\ Len(ind.data) < ind.period)
  => ind.result = Returned(<<>>)

C14_Witness ==
  /\ Computed({"SMA"})
  /\ Len(ind.data) = 3
  /\ ind.period = 4
  /\ ind.result = Returned(<<>>)

\* C15: MACD over fewer than slow + signal - 1 candles returns the empty
\* series and does not throw
C15_MacdShortIsEmpty ==
  (Computed({"MACD"}) /\ Len(ind.data) < ind.slowPeriod + ind.signalPeriod - 1)
  => ind.result = Returned(<<>>)

----------------------------------------------------------------------------
(* Properties of the cached endpoint, continued *)

\* a request with settings, past the window computation, whose timeframe is
\* no key of the table
UnknownTimeframe(r) ==
  /\ req[r].coinSettings # NoSettings
  /\ req[r].endTimestamp # 0
  /\ req[r].timeframe \notin {"1m", "5m", "15m", "1h", "4h", "1d"}

C25_FailedRefreshKeepsCache ==
  \A r \in Requests :
    (/\ traffic.clients = {r}
     /\ req[r].pc = "done"
     /\ req[r].forceRefresh
     /\ req[r].coinSettings # NoSettings
     /\ req[r].response.status = 500
     /\ kline # {} \/ req[r].deleted > 0)
    => KeyRows(kline, req[r].coinSettings.id, req[r].timeframe)
         = KeyRows(PriorRows, req[r].coinSettings.id, req[r].timeframe)

----------------------------------------------------------------------------
(* The settings route (src/app/api/settings/route.ts) and the two forms    *)
(* that post to it, next to the cached endpoint.  The settings form of the *)
(* dashboard posts the symbol in upper case without its slash; the add     *)
(* form of the watchlist page posts it in upper case, trimmed.             *)

\* String.prototype.toUpperCase, token by token
ToUpperCase(symbol) ==
  [k \in 1..Len(symbol) |->
     CASE symbol[k] = "btc" -> "BTC"
       [] symbol[k] = "eth" -> "ETH"
       [] symbol[k] = "usdt" -> "USDT"
       [] OTHER -> symbol[k]]

RECURSIVE TrimStart(_)
TrimStart(symbol) ==
  IF symbol # <<>> /\ Head(symbol) = " " THEN TrimStart(Tail(symbol)) ELSE symbol

\* String.prototype.trim
Trim(symbol) == Reverse(TrimStart(Reverse(TrimStart(symbol))))

\* const formattedSymbol = newSymbol.toUpperCase().trim()
FormattedSymbol(newSymbol) == Trim(ToUpperCase(newSymbol))

\* symbol: formData.symbol.toUpperCase().replace('/', '')
SettingsFormSymbol(symbol) == ReplaceSlash(ToUpperCase(symbol))

\* the id of a created row
NextId(table) ==
  IF table = {} THEN 1
  ELSE 1 + (CHOOSE id \in {row.id : row \in table} : \A row \in table : row.id <= id)

\* prisma.coinSettings.upsert({ where: { userId_symbol }, update: { publishTime, ... },
\*                              create: { userId, symbol, publishTime, ... } })
Upsert(table, userId, symbol, publishTime) ==
  IF \E row \in table : row.userId = userId /\ row.symbol = symbol
  THEN {IF row.userId = userId /\ row.symbol = symbol
        THEN [row EXCEPT !.publishTime = publishTime] ELSE row : row \in table}
  ELSE table \cup {[id |-> NextId(table), userId |-> userId, symbol |-> symbol,
                    publishTime |-> publishTime]}

\* a row of the watchlistItem table
WatchlistItem(id, userId, symbol) == [id |-> id, userId |-> userId, symbol |-> symbol]

\* what the user types into a symbol field: picked from the autocomplete
\* ('BTC/USDT'), typed in lower case without the slash, typed with a blank
TypedSymbols == {BtcUsdt, <<"btc", "usdt">>, <<"BTC", "/", "USDT", " ">>}

\* the publish time of a posted form: the one stored before, and eight days later
PostedPublishTimes == {2 * MsPerDay, 10 * MsPerDay}

\* the submissions of the two forms
FormPosts ==
  [form : {"settings"}, userId : {"u1"}, symbol : {BtcUsdt, <<"btc", "usdt">>},
   publishTime : PostedPublishTimes]
  \cup
  [form : {"watchlist"}, userId : {"u1"}, symbol : TypedSymbols,
   publishTime : PostedPublishTimes]

\* answers of the exchange next to the forms: none, a candle in the window of
\* the earlier publish time, a candle in the window of the later one
StorePool ==
  {<<>>, <<RawCandle(2 * MsPerDay, 1)>>, <<RawCandle(10 * MsPerDay, 1)>>}

\* settings of two users: u1 for BTCUSDT and ETHUSDT, u2 for BTCUSDT
ThreeSettings ==
  {[id |-> 1, userId |-> "u1", symbol |-> ReplaceSlash(BtcUsdt), publishTime |-> 2 * MsPerDay],
   [id |-> 2, userId |-> "u1", symbol |-> ReplaceSlash(EthUsdt), publishTime |-> 2 * MsPerDay],
   [id |-> 3, userId |-> "u2", symbol |-> ReplaceSlash(BtcUsdt), publishTime |-> 2 * MsPerDay]}

\* one cached candle for every settings row and each of three timeframes
RowsOfAllKeys ==
  UNION {RowsOf(<<[time |-> DivThousand(2 * MsPerDay), close |-> 7]>>,
                row.id, row.symbol, timeframe) :
           row \in ThreeSettings, timeframe \in {"5m", "1h", "1d"}}

\* one request at a time, forced or not, of either user on a filled cache;
\* NumRequests unforced requests together on the key (u1, BTC/USDT, 1h) with
\* an empty cache; two such requests while the forms post
StoreScenarios ==
  {[exchange |-> [mode |-> "arbitrary", held |-> {}, pool |-> SharedPool],
    traffic |-> [clients |-> {1},
                 params |-> Params({"u1", "u2"}, {BtcUsdt, EthUsdt}, {"5m", "1h"}),
                 posts |-> {}],
    coinSettings |-> ThreeSettings,
    kline |-> RowsOfAllKeys]}
  \cup
  {[exchange |-> [mode |-> "arbitrary", held |-> {}, pool |-> StorePool],
    traffic |-> [clients |-> Requests,
                 params |-> {p \in Params({"u1"}, {BtcUsdt}, {"1h"}) : ~p.forceRefresh},
                 posts |-> {}],
    coinSettings |-> {SettingsRow(2 * MsPerDay)},
    kline |-> {}]}
  \cup
  {[exchange |-> [mode |-> "arbitrary", held |-> {}, pool |-> StorePool],
    traffic |-> [clients |-> {1, 2},
                 params |-> {p \in Params({"u1"}, {BtcUsdt}, {"1h"}) : ~p.forceRefresh},
                 posts |-> FormPosts],
    coinSettings |-> {SettingsRow(2 * MsPerDay)},
    kline |-> {}]}

InitStore ==
  /\ \E scenario \in StoreScenarios :
       /\ exchange = scenario.exchange
       /\ traffic = scenario.traffic
       /\ coinSettings = scenario.coinSettings
       /\ kline = scenario.kline
  /\ req = [r \in Requests |-> Idle]
  /\ lastDone = 0
  /\ ind = NoIndicator
  /\ watchlist = {}
  /\ post = NoPosts
  /\ page = NoPage
  /\ loader = NoLoader

\* the settings form of the dashboard: POST /api/settings with the symbol in
\* upper case without its slash
HandleSubmit(body) ==
  /\ body.form = "settings"
  /\ coinSettings' = Upsert(coinSettings, body.userId, SettingsFormSymbol(body.symbol),
                            body.publishTime)
  /\ UNCHANGED <<kline, exchange, traffic, req, lastDone, ind, watchlist, post, page, loader>>

\* the add form of the watchlist page with its settings enabled: POST
\* /api/watchlist, answered 201 for a symbol that is not in the list, then
\* POST /api/settings with the same formatted symbol
HandleAddSymbol(body) ==
  /\ body.form = "watchlist"
  /\ FormattedSymbol(body.symbol) # <<>>
  /\ ~\E item \in watchlist :
        item.userId = body.userId /\ item.symbol = FormattedSymbol(body.symbol)
  /\ watchlist' = watchlist \cup {WatchlistItem(NextId(watchlist), body.userId,
                                                FormattedSymbol(body.symbol))}
  /\ coinSettings' = Upsert(coinSettings, body.userId, FormattedSymbol(body.symbol),
                            body.publishTime)
  /\ UNCHANGED <<kline, exchange, traffic, req, lastDone, ind, post, page, loader>>

NextStore ==
  \/ Next
  \/ \E body \in traffic.posts : HandleSubmit(body)
  \/ \E body \in traffic.posts : HandleAddSymbol(body)

SpecStore == InitStore /\ [][NextStore]_vars

----------------------------------------------------------------------------
(* Properties of the store *)

\* the rows of every key but (coinSettingsId, timeframe)
OtherRows(table, coinSettingsId, timeframe) ==
  table \ KeyRows(table, coinSettingsId, timeframe)

\* request r takes a step that writes to the kline table
WritesCache(r) ==
  /\ req[r].pc \in {"deleteMany", "createMany"}
  /\ req'[r] # req[r]

\* C28: the kline table changes only in the delete and the insert of a request
\* that refreshes its key, and these leave the rows of every other key as they
\* were: other timeframes of the symbol, other symbols of the owner, other
\* owners
C28_OtherKeysUnchanged ==
  [][/\ kline' # kline => \E r \in Requests : WritesCache(r)
     /\ \A r \in Requests :
          WritesCache(r) =>
            OtherRows(kline', req[r].coinSettings.id, req[r].timeframe)
              = OtherRows(kline, req[r].coinSettings.id, req[r].timeframe)]_vars

C28_Witness ==
  \E r \in Requests :
    /\ req[r].pc = "done"
    /\ req[r].writes = 2
    /\ req[r].deleted = 1
    /\ req[r].coinSettings.id = 1
    /\ req[r].timeframe = "1h"
    /\ KeyRows(kline, 1, "1h") # KeyRows(RowsOfAllKeys, 1, "1h")
    /\ OtherRows(kline, 1, "1h") = OtherRows(RowsOfAllKeys, 1, "1h")
    /\ \E row \in kline : row.coinSettingsId = 1 /\ row.timeframe = "5m"
    /\ \E row \in kline : row.coinSettingsId = 2 /\ row.timeframe = "1h"
    /\ \E row \in kline : row.coinSettingsId = 3 /\ row.timeframe = "1h"

\* the settings row the cached endpoint and GET /api/settings find for a
\* viewed symbol: both look it up without its slash
SettingsOf(userId, symbol) == FindUnique(coinSettings, userId, ReplaceSlash(symbol))

\* every candle lies in [publishTime - 1 day, publishTime + 4 days]
WithinWindow(data, publishTime) ==
  \A k \in 1..Len(data) :
    /\ TimesThousand(data[k].time) >= publishTime - daysBefore * MsPerDay
    /\ TimesThousand(data[k].time) <= publishTime + daysAfter * MsPerDay

\* request r answers from the cache in this step
ServesFromCache(r) ==
  /\ req[r].pc = "findMany"
  /\ req'[r].pc = "done"
  /\ req'[r].response.cached = "true"

\* C22: a series answered from the cache lies within the window of the
\* publish time the owner's settings row holds when it is answered, also after
\* POST /api/settings has changed that publish time
C22_ServedWithinCurrentWindow ==
  [][\A r \in Requests :
       ServesFromCache(r) =>
         WithinWindow(req'[r].response.data,
                      SettingsOf(req[r].userId, req[r].symbol).publishTime)]_vars

\* request r has run the assembler against the exchange
RanAssembler(r) ==
  /\ req[r].coinSettings # NoSettings
  /\ req[r].calls # <<>>

\* C26: while no form posts settings and no request forces a refresh, at most
\* one request per key (owner, symbol, timeframe) runs the assembler
C26_AtMostOneAssembly ==
  (traffic.posts = {} /\ \A r \in Requests : ~req[r].forceRefresh)
  => \A r1, r2 \in Requests :
       (/\ RanAssembler(r1) /\ RanAssembler(r2)
        /\ req[r1].coinSettings.id = req[r2].coinSettings.id
        /\ req[r1].timeframe = req[r2].timeframe)
       => r1 = r2

\* C30: the settings saved with a watchlist item through the add form are the
\* settings found when the item's symbol is viewed
C30_SavedSettingsFound ==
  \A item \in watchlist :
    \A row \in coinSettings :
      (row.userId = item.userId /\ row.symbol = item.symbol)
      => SettingsOf(item.userId, item.symbol) = row

----------------------------------------------------------------------------
(* POST /api/watchlist (src/app/api/watchlist/route.ts), run by several     *)
(* requests at once against the watchlistItem table, which has a unique     *)
(* index on (userId, symbol).                                               *)

\* locals of POST, and what became of the request: outcome is "existing"
\* when findUnique found the item, "conflict" when create hit the unique
\* index, "failed" when Prisma rejected for another reason
NoPost ==
  [pc |-> "idle", userId |-> "", symbol |-> <<>>, status |-> 0, error |-> "",
   outcome |-> ""]

\* the response of a finished POST
Answered(rq, status, error, outcome) ==
  [rq EXCEPT !.pc = "done", !.status = status, !.error = error, !.outcome = outcome]

\* prisma.watchlistItem.findUnique({ where: { userId_symbol: { userId, symbol } } })
InWatchlist(table, userId, symbol) ==
  \E item \in table : item.userId = userId /\ item.symbol = symbol

\* symbols posted to the watchlist: with the slash, without it, none
PostedSymbols == {BtcUsdt, ReplaceSlash(BtcUsdt), NoSymbol}

InitWatchlist ==
  /\ watchlist \in {{}, {WatchlistItem(1, "u1", BtcUsdt)}}
  /\ post = [p \in Requests |-> NoPost]
  /\ coinSettings = {}
  /\ kline = {}
  /\ exchange = [mode |-> "arbitrary", held |-> {}, pool |-> {}]
  /\ traffic = [clients |-> {}, params |-> {}]
  /\ req = [r \in Requests |-> Idle]
  /\ lastDone = 0
  /\ ind = NoIndicator
  /\ page = NoPage
  /\ loader = NoLoader

\* POST lines 35-41: the session and the body
PostEnter(p) ==
  /\ post[p].pc = "idle"
  /\ \E userId \in {"u1", ""}, symbol \in PostedSymbols :
       LET arrived == [NoPost EXCEPT !.userId = userId, !.symbol = symbol]
       IN post' = [post EXCEPT ![p] =
            IF userId = "" THEN Answered(arrived, 401, "Unauthorized", "unauthorized")
            ELSE IF symbol = NoSymbol
            THEN Answered(arrived, 400, "Invalid input", "invalid")
            ELSE [arrived EXCEPT !.pc = "findUnique"]]
  /\ UNCHANGED <<watchlist, coinSettings, kline, exchange, traffic, req, lastDone, ind,
                 page, loader>>

\* POST lines 44-58: the lookup, and the answer when the item exists
PostFindUnique(p) ==
  /\ post[p].pc = "findUnique"
  /\ post' = [post EXCEPT ![p] =
       IF InWatchlist(watchlist, post[p].userId, post[p].symbol)
       THEN Answered(post[p], 400, "Symbol already in watchlist", "existing")
       ELSE [post[p] EXCEPT !.pc = "create"]]
  /\ UNCHANGED <<watchlist, coinSettings, kline, exchange, traffic, req, lastDone, ind,
                 page, loader>>

\* POST lines 60-67, and 68-79 when the unique index rejects the row
PostCreate(p) ==
  /\ post[p].pc = "create"
  /\ IF InWatchlist(watchlist, post[p].userId, post[p].symbol)
     THEN /\ post' = [post EXCEPT ![p] =
                        Answered(post[p], 500, "Internal server error", "conflict")]
          /\ UNCHANGED watchlist
     ELSE /\ watchlist' = watchlist \cup {WatchlistItem(NextId(watchlist), post[p].userId,
                                                        post[p].symbol)}
          /\ post' = [post EXCEPT ![p] = Answered(post[p], 201, "", "created")]
  /\ UNCHANGED <<coinSettings, kline, exchange, traffic, req, lastDone, ind, page, loader>>

\* a Prisma call rejects for another reason: POST lines 68-79
PostDbFail(p) ==
  /\ post[p].pc \in {"findUnique", "create"}
  /\ post' = [post EXCEPT ![p] =
                Answered(post[p], 500, "Internal server error", "failed")]
  /\ UNCHANGED <<watchlist, coinSettings, kline, exchange, traffic, req, lastDone, ind,
                 page, loader>>

NextWatchlist ==
  \E p \in Requests :
    \/ PostEnter(p)
    \/ PostFindUnique(p)
    \/ PostCreate(p)
    \/ PostDbFail(p)

SpecWatchlist == InitWatchlist /\ [][NextWatchlist]_vars

\* C29: the watchlist never holds two items of one user with the same symbol,
\* and a POST that adds nothing because the symbol is in the list, found by the
\* lookup or by the unique index at the insert, is answered 400 'Symbol
\* already in watchlist'
C29_DuplicateIs400 ==
  /\ \A a, b \in watchlist : (a.userId = b.userId /\ a.symbol = b.symbol) => a = b
  /\ \A p \in Requests :
       (post[p].pc = "done" /\ post[p].outcome \in {"existing", "conflict"})
       => (post[p].status = 400 /\ post[p].error = "Symbol already in watchlist")

----------------------------------------------------------------------------
(* The chart page (src/app/dashboard/chart/page.tsx, ChartContent).  Every  *)
(* change of symbol or timeframe runs the effect of lines 45-53 again: a    *)
(* load, which awaits fetchSettings and then fetchChartData, with the       *)
(* symbol, timeframe and settings of the render that started it.  Nothing   *)
(* cancels a load.  Displayed data and settings are kept with the selection *)
(* they were fetched for.                                                   *)

MaxLoads == 2

Loads == 1..MaxLoads

\* useState(initialSymbol), useState('1h')
InitialSymbol == BtcUsdt
InitialTimeframe == "1h"

\* symbols typed into the symbol form, items of the watchlist panel, buttons
\* of the timeframe selector
FormSymbols == {<<"eth", "/", "usdt">>, BtcUsdt}
PanelSymbols == {BtcUsdt, EthUsdt}
TimeframeButtons == {"1h", "1d"}

\* the settings state: null, or the row fetched for a symbol
NoPageSettings == [of |-> <<>>, hasPublishTime |-> FALSE]

\* the data state: the candles (their number) and the selection they were
\* fetched for
NoPageData == [of |-> <<>>, n |-> 0]

\* a load that has not started
NoLoad ==
  [pc |-> "unused", symbol |-> <<>>, timeframe |-> "", settings |-> NoPageSettings,
   endpoint |-> "", outcome |-> [kind |-> "", n |-> 0, message |-> ""]]

\* what the klines request of a load comes to: a 200 answer with n candles,
\* an error answer with or without an error text, a rejected fetch
KlinesOutcomes ==
  {[kind |-> "ok", n |-> n, message |-> ""] : n \in {0, 2}}
  \cup {[kind |-> "error", n |-> 0, message |-> m] : m \in {"BadSymbol", ""}}
  \cup {[kind |-> "thrown", n |-> 0, message |-> "Failed to fetch"]}

\* throw new Error(result.error || 'Failed to fetch chart data'), then
\* setError(err.message || 'Failed to load chart data')
ErrorText(outcome) ==
  LET thrown == IF outcome.kind = "error"
                THEN (IF outcome.message # "" THEN outcome.message
                      ELSE "Failed to fetch chart data")
                ELSE outcome.message
  IN IF thrown # "" THEN thrown ELSE "Failed to load chart data"

\* the first load, started by the effect on mount
StartLoad(symbol, timeframe, settings) ==
  [NoLoad EXCEPT !.pc = "fetchSettings", !.symbol = symbol, !.timeframe = timeframe,
                 !.settings = settings]

InitPage ==
  /\ page = [symbol |-> InitialSymbol, timeframe |-> InitialTimeframe,
             data |-> NoPageData, settings |-> NoPageSettings,
             loading |-> FALSE, error |-> "",
             started |-> 1,
             loads |-> [l \in Loads |->
                          IF l = 1 THEN StartLoad(InitialSymbol, InitialTimeframe,
                                                  NoPageSettings)
                          ELSE NoLoad]]
  /\ coinSettings = {}
  /\ kline = {}
  /\ exchange = [mode |-> "arbitrary", held |-> {}, pool |-> {}]
  /\ traffic = [clients |-> {}, params |-> {}]
  /\ req = [r \in Requests |-> Idle]
  /\ lastDone = 0
  /\ ind = NoIndicator
  /\ watchlist = {}
  /\ post = NoPosts
  /\ loader = NoLoader

\* setSymbol / setTimeframe with a new value: the next render runs the effect
\* of lines 45-53, which starts a load with that render's values
Select(symbol, timeframe) ==
  /\ <<symbol, timeframe>> # <<page.symbol, page.timeframe>>
  /\ page.started < MaxLoads
  /\ page' = [page EXCEPT !.symbol = symbol, !.timeframe = timeframe,
                          !.started = @ + 1,
                          !.loads[page.started + 1] =
                             StartLoad(symbol, timeframe, page.settings)]
  /\ UNCHANGED <<coinSettings, kline, exchange, traffic, req, lastDone, ind,
                 watchlist, post, loader>>

\* handleSymbolChange, lines 132-139
HandleSymbolChange(newSymbol) ==
  /\ newSymbol # <<>>
  /\ Select(ToUpperCase(newSymbol), page.timeframe)

\* onClick={() => setSymbol(item.symbol)}, line 308
PanelClick(symbol) == Select(symbol, page.timeframe)

\* onClick={() => setTimeframe(tf.value)}, line 208
SetTimeframe(timeframe) == Select(page.symbol, timeframe)

\* fetchSettings has its answer (lines 99-118); loadData goes on into
\* fetchChartData up to its fetch (lines 59-70 or 80-81)
FetchSettings(l, found) ==
  /\ page.loads[l].pc = "fetchSettings"
  /\ LET load == page.loads[l]
         loadedSettings == IF found THEN [of |-> load.symbol, hasPublishTime |-> TRUE]
                           ELSE NoPageSettings
         shown == IF found THEN loadedSettings
                  ELSE [of |-> load.symbol, hasPublishTime |-> FALSE]
         settingsToUse == IF found THEN loadedSettings ELSE load.settings
     IN page' = [page EXCEPT
                   !.settings = shown,
                   !.loading = TRUE,
                   !.error = "",
                   !.loads[l] = [load EXCEPT
                      !.pc = "fetchChartData",
                      !.endpoint = IF settingsToUse.hasPublishTime
                                   THEN "klines-cached" ELSE "klines"]]
  /\ UNCHANGED <<coinSettings, kline, exchange, traffic, req, lastDone, ind,
                 watchlist, post, loader>>

\* fetchChartData has its answer: lines 71-78 or 82-89, the catch of lines
\* 91-93 and the finally of lines 94-96
FetchChartData(l, outcome) ==
  /\ page.loads[l].pc = "fetchChartData"
  /\ LET load == page.loads[l]
         finished == [load EXCEPT !.pc = "done", !.outcome = outcome]
         of == <<load.symbol, load.timeframe>>
     IN page' = IF outcome.kind = "ok"
                THEN [page EXCEPT !.data = [of |-> of, n |-> outcome.n],
                                  !.loading = FALSE,
                                  !.loads[l] = finished]
                ELSE [page EXCEPT !.error = ErrorText(outcome),
                                  !.data = [of |-> of, n |-> 0],
                                  !.loading = FALSE,
                                  !.loads[l] = finished]
  /\ UNCHANGED <<coinSettings, kline, exchange, traffic, req, lastDone, ind,
                 watchlist, post, loader>>

NextPage ==
  \/ \E newSymbol \in FormSymbols : HandleSymbolChange(newSymbol)
  \/ \E symbol \in PanelSymbols : PanelClick(symbol)
  \/ \E timeframe \in TimeframeButtons : SetTimeframe(timeframe)
  \/ \E l \in Loads, found \in BOOLEAN : FetchSettings(l, found)
  \/ \E l \in Loads, outcome \in KlinesOutcomes : FetchChartData(l, outcome)

SpecPage == InitPage /\ [][NextPage]_vars

\* the blocks of the chart display, lines 252-288
ShowsLoading(p) == p.loading
ShowsError(p) == p.error # ""
ShowsChart(p) == ~p.loading /\ p.error = "" /\ p.data.n > 0
ShowsEmptyState(p) == ~p.loading /\ p.error = "" /\ p.data.n = 0

\* load l completes in this step
Completes(l) ==
  /\ page.loads[l].pc = "fetchChartData"
  /\ page'.loads[l].pc = "done"

\* C23: when a load completes, the error block is shown exactly if its fetch
\* failed, and then with the text of the failure; the empty-state block is
\* shown only if its fetch succeeded with zero candles; the error block is
\* shown together with neither the chart nor the empty-state block
C23_ErrorIffFailed ==
  [][\A l \in Loads :
       Completes(l) =>
         LET outcome == page'.loads[l].outcome
         IN /\ ShowsError(page') <=> outcome.kind # "ok"
            /\ outcome.kind # "ok" => page'.error = ErrorText(outcome)
            /\ ShowsEmptyState(page') => (outcome.kind = "ok" /\ outcome.n = 0)
            /\ ~(ShowsError(page') /\ (ShowsChart(page') \/ ShowsEmptyState(page')))]_vars

\* no load is in flight, and one has completed
Settled ==
  /\ \A l \in Loads : page.loads[l].pc \in {"unused", "done"}
  /\ \E l \in Loads : page.loads[l].pc = "done"

\* C27: when every load has completed, the displayed data and settings are
\* those fetched for the selected symbol and timeframe
C27_ShowsLatestSelection ==
  Settled =>
    /\ page.data.of = <<page.symbol, page.timeframe>>
    /\ page.settings.of = page.symbol

----------------------------------------------------------------------------
(* The client-side loader of the older chart page (src/unnamed/part_003,   *)
(* fetchChartDataWithPublishTime), which asks GET /api/klines               *)
(* (src/unnamed/part_002) for every batch.  It runs after a request of the  *)
(* cached endpoint has run fetchCompleteData for the same settings and      *)
(* timeframe, and its k-th call is answered as that request's k-th call     *)
(* was.                                                                     *)

\* the formatted candles the k-th upstream call of a request returned
BatchOf(rq, k) ==
  SubSeq(rq.fetched, RowsUpTo(rq.calls, k - 1) + 1,
         RowsUpTo(rq.calls, k - 1) + rq.calls[k].rows)

\* const totalMinutes = 5 * 24 * 60;
\* const requiredLimit = Math.ceil(totalMinutes / minutesPerCandle)
LoaderRequiredLimit(timeframe) == Ceil(5 * 24 * 60, minutesPerCandle(timeframe))

\* const numBatches = Math.ceil(requiredLimit / maxPerRequest)
LoaderNumBatches(timeframe) == Ceil(LoaderRequiredLimit(timeframe), maxPerRequest)

\* locals of fetchChartDataWithPublishTime; calls is the history of the
\* upstream calls GET /api/klines made for it, data what setData received
LoaderAt(pc, timeframe, startTimestamp, endTimestamp) ==
  [pc |-> pc, timeframe |-> timeframe, startTimestamp |-> startTimestamp,
   endTimestamp |-> endTimestamp, i |-> 0, currentSince |-> startTimestamp,
   allData |-> <<>>, calls |-> <<>>, threw |-> FALSE, hasData |-> FALSE, data |-> <<>>]

\* one request at a time against an arbitrary exchange, on the single-batch
\* timeframe 1h and the two-batch timeframe 5m
LoaderScenarios ==
  {[exchange |-> [mode |-> "arbitrary", held |-> {}, pool |-> SeqsUpTo(CandlePool, MaxBatchLen)],
    traffic |-> [clients |-> {1},
                 params |-> Params({"u1"}, {BtcUsdt, EthUsdt}, {"1h", "5m"})]]}

InitLoader ==
  /\ \E scenario \in LoaderScenarios :
       /\ exchange = scenario.exchange
       /\ traffic = scenario.traffic
  /\ \E publishTime \in PublishTimes : coinSettings = {SettingsRow(publishTime)}
  /\ kline = {}
  /\ req = [r \in Requests |-> Idle]
  /\ lastDone = 0
  /\ ind = NoIndicator
  /\ watchlist = {}
  /\ post = NoPosts
  /\ page = NoPage
  /\ loader = NoLoader

\* the request whose upstream answers the loader is given
Served == req[1]

\* the loader ends: setData(chartData), or the throw of a failed fetch
LoaderDone(ld, threw, hasData, data) ==
  [ld EXCEPT !.pc = "done", !.threw = threw, !.hasData = hasData, !.data = data]

\* the answer to the loader's next call: the batch the request's call of the
\* same number received, a throw if that call threw
LoaderCalls(ld, since, limit) ==
  Append(ld.calls, Call(TRUE, since, limit, Served.calls[Len(ld.calls) + 1].rows))

\* fetchChartDataWithPublishTime lines 80-115 and 136-146: the window, the
\* limit and the choice of the path
LoaderStart ==
  /\ loader.pc = "closed"
  /\ Served.pc = "done"
  /\ RanAssembler(1)
  /\ LET publishTime == Served.coinSettings.publishTime
         startTimestamp == publishTime - daysBefore * MsPerDay
         endTimestamp == publishTime + daysAfter * MsPerDay
     IN loader' =
          IF LoaderRequiredLimit(Served.timeframe) <= maxPerRequest
          THEN LoaderAt("fetchSingle", Served.timeframe, startTimestamp, endTimestamp)
          ELSE IF 0 < LoaderNumBatches(Served.timeframe)
                  /\ ~ReachedEnd(startTimestamp, endTimestamp)
          THEN LoaderAt("fetchBatch", Served.timeframe, startTimestamp, endTimestamp)
          ELSE LoaderDone(LoaderAt("done", Served.timeframe, startTimestamp, endTimestamp),
                          FALSE, TRUE, <<>>)
  /\ UNCHANGED <<coinSettings, kline, exchange, traffic, req, lastDone, ind,
                 watchlist, post, page>>

\* lines 116-134: one call, then only the filter to the range
LoaderFetchSingle ==
  /\ loader.pc = "fetchSingle"
  /\ Len(Served.calls) > Len(loader.calls)
  /\ LET k == Len(loader.calls) + 1
         called == [loader EXCEPT !.calls =
                      LoaderCalls(loader, loader.startTimestamp,
                                  LoaderRequiredLimit(loader.timeframe))]
     IN loader' =
          IF Served.calls[k].rows = -1 THEN LoaderDone(called, TRUE, FALSE, <<>>)
          ELSE LoaderDone(called, FALSE, TRUE,
                          FilterData(BatchOf(Served, k), loader.startTimestamp,
                                     loader.endTimestamp))
  /\ UNCHANGED <<coinSettings, kline, exchange, traffic, req, lastDone, ind,
                 watchlist, post, page>>

\* lines 185-207: deduplicate, filter to the range, sort, setData
LoaderFinish(ld, allData) ==
  LoaderDone([ld EXCEPT !.allData = allData], FALSE, TRUE,
             SortByTime(FilterData(UniqueData(allData), ld.startTimestamp,
                                   ld.endTimestamp)))

\* lines 143-182: one round of the batch loop
LoaderFetchBatch ==
  /\ loader.pc = "fetchBatch"
  /\ Len(Served.calls) > Len(loader.calls)
  /\ LET k == Len(loader.calls) + 1
         called == [loader EXCEPT !.calls =
                      LoaderCalls(loader, loader.currentSince, maxPerRequest)]
         batchData == BatchOf(Served, k)
         allData == loader.allData \o batchData
         currentSince == NextSince(batchData, loader.timeframe)
     IN loader' =
          IF Served.calls[k].rows = -1 THEN LoaderDone(called, TRUE, FALSE, <<>>)
          ELSE IF Len(batchData) = 0 THEN LoaderFinish(called, loader.allData)
          ELSE IF ReachedEnd(currentSince, loader.endTimestamp)
          THEN LoaderFinish([called EXCEPT !.currentSince = currentSince], allData)
          ELSE IF loader.i + 1 < LoaderNumBatches(loader.timeframe)
          THEN [called EXCEPT !.i = @ + 1, !.currentSince = currentSince,
                              !.allData = allData]
          ELSE LoaderFinish([called EXCEPT !.i = @ + 1, !.currentSince = currentSince],
                            allData)
  /\ UNCHANGED <<coinSettings, kline, exchange, traffic, req, lastDone, ind,
                 watchlist, post, page>>

NextLoader ==
  \/ Next
  \/ LoaderStart
  \/ LoaderFetchSingle
  \/ LoaderFetchBatch

SpecLoader == InitLoader /\ [][NextLoader]_vars

\* the loader has ended, or waits for an answer that the request never got
LoaderOver ==
  \/ loader.pc = "done"
  \/ loader.pc \in {"fetchSingle", "fetchBatch"} /\ Len(Served.calls) = Len(loader.calls)

\* C21: given the window, the timeframe and the upstream answers of a request
\* that ran fetchCompleteData, the loader issues the same upstream calls and
\* ends with the same series (or, like the request, with the error of a call
\* that threw), on the single-batch and on the multi-batch path
C21_LoaderMatchesAssembler ==
  (loader.pc # "closed" /\ LoaderOver) =>
    /\ loader.pc = "done"
    /\ loader.calls = Served.calls
    /\ loader.threw <=> Served.calls[Len(Served.calls)].rows = -1
    /\ ~loader.threw => loader.data = Served.allData

====
